---- MODULE Spec2Model ----
(***************************************************************************)
(* Model of auto-server-client: the authenticated request dispatcher       *)
(* (createServerClient), the server-side helper (serverQuery), the proxy   *)
(* route documented in the README, and the two client hooks (useAutoQuery, *)
(* useAutoMutation).                                                       *)
(*                                                                         *)
(* JavaScript values are records with the same fields whatever their type, *)
(* strings are sequences of one-character strings, and JSON text is a      *)
(* sequence of tokens: the keywords null/true/false, one-digit numerals,   *)
(* punctuation, and the characters of string literals between quotes.      *)
(***************************************************************************)
EXTENDS Integers, Sequences, FiniteSets, TLC

\* ------------------------------------------------------------------------
\* JavaScript values
\* ------------------------------------------------------------------------

JSV(t, b, n, s, items) == [t |-> t, b |-> b, n |-> n, s |-> s, items |-> items]

Undefined == JSV("undefined", FALSE, 0, <<>>, <<>>)
Null      == JSV("null", FALSE, 0, <<>>, <<>>)
BoolV(b)  == JSV("bool", b, 0, <<>>, <<>>)
NumV(n)   == JSV("num", FALSE, n, <<>>, <<>>)
StrV(s)   == JSV("str", FALSE, 0, s, <<>>)
\* an array: items with empty keys; an object: items with their keys
ArrV(vs)  == JSV("arr", FALSE, 0, <<>>, [i \in 1..Len(vs) |-> [k |-> <<>>, v |-> vs[i]]])
ObjV(kvs) == JSV("obj", FALSE, 0, <<>>, kvs)
\* a pending or settled Promise object (what an async function returns)
PromiseV  == JSV("promise", FALSE, 0, <<>>, <<>>)

KV(k, v) == [k |-> k, v |-> v]

\* ToBoolean: undefined, null, false, 0 and "" are falsy, every object
\* (arrays and Promises included) is truthy.
Truthy(v) ==
    CASE v.t = "undefined" -> FALSE
      [] v.t = "null"      -> FALSE
      [] v.t = "bool"      -> v.b
      [] v.t = "num"       -> v.n # 0
      [] v.t = "str"       -> v.s # <<>>
      [] OTHER             -> TRUE

\* obj.key for destructuring: a property of an object, undefined on anything
\* else (null is replaced by {} by the caller; primitives and arrays have no
\* such own property).
RECURSIVE LookupFrom(_, _, _)
LookupFrom(items, key, i) ==
    IF i > Len(items) THEN Undefined
    ELSE IF items[i].k = key THEN items[i].v
    ELSE LookupFrom(items, key, i + 1)

Prop(v, key) == IF v.t = "obj" THEN LookupFrom(v.items, key, 1) ELSE Undefined

\* string constants of the program, as character sequences
sGET     == <<"G", "E", "T">>
sPOST    == <<"P", "O", "S", "T">>
sPUT     == <<"P", "U", "T">>
sDELETE  == <<"D", "E", "L", "E", "T", "E">>
sPATCH   == <<"P", "A", "T", "C", "H">>
sMethod  == <<"m", "e", "t", "h", "o", "d">>
sPath    == <<"p", "a", "t", "h">>
sBody    == <<"b", "o", "d", "y">>
sError   == <<"e", "r", "r", "o", "r">>
sBearer  == <<"B", "e", "a", "r", "e", "r", " ">>
sObjectPromise ==
    <<"[", "o", "b", "j", "e", "c", "t", " ", "P", "r", "o", "m", "i", "s", "e", "]">>
sRequestFailed ==
    <<"R", "e", "q", "u", "e", "s", "t", " ", "f", "a", "i", "l", "e", "d">>
sInvalidJSONBody ==
    <<"I", "n", "v", "a", "l", "i", "d", " ", "J", "S", "O", "N", " ", "b", "o", "d", "y">>
sInvalidMethod ==
    <<"I", "n", "v", "a", "l", "i", "d", " ", "m", "e", "t", "h", "o", "d">>
sInvalidPath ==
    <<"I", "n", "v", "a", "l", "i", "d", " ", "p", "a", "t", "h">>
sApplicationJson ==
    <<"a", "p", "p", "l", "i", "c", "a", "t", "i", "o", "n", "/", "j", "s", "o", "n">>

\* ------------------------------------------------------------------------
\* JSON.stringify and JSON.parse (Response.json, NextRequest.json)
\* ------------------------------------------------------------------------

Digits == <<"0", "1", "2", "3", "4", "5", "6", "7", "8", "9">>
Quote  == "\""

RECURSIVE JSONText(_)
RECURSIVE ItemsText(_, _, _, _)

\* the members of an array or object from index i; first: nothing written yet.
\* In an array undefined is written as null; in an object a member whose
\* value is undefined is left out.
ItemsText(items, isObj, i, first) ==
    IF i > Len(items) THEN <<>>
    ELSE LET it == items[i] IN
         IF isObj /\ it.v.t = "undefined"
         THEN ItemsText(items, isObj, i + 1, first)
         ELSE (IF first THEN <<>> ELSE <<",">>)
              \o (IF isObj THEN <<Quote>> \o it.k \o <<Quote, ":">> ELSE <<>>)
              \o (IF it.v.t = "undefined" THEN <<"null">> ELSE JSONText(it.v))
              \o ItemsText(items, isObj, i + 1, FALSE)

\* JSON.stringify(v) for v other than undefined (for which it returns
\* undefined, not a text). A Promise has no enumerable property: {}.
JSONText(v) ==
    CASE v.t = "null" -> <<"null">>
      [] v.t = "bool" -> IF v.b THEN <<"true">> ELSE <<"false">>
      [] v.t = "num"  -> <<Digits[v.n + 1]>>
      [] v.t = "str"  -> <<Quote>> \o v.s \o <<Quote>>
      [] v.t = "arr"  -> <<"[">> \o ItemsText(v.items, FALSE, 1, TRUE) \o <<"]">>
      [] v.t = "obj"  -> <<"{">> \o ItemsText(v.items, TRUE, 1, TRUE) \o <<"}">>
      [] OTHER        -> <<"{", "}">>

DigitValue(tok) == CHOOSE n \in 0..9 : Digits[n + 1] = tok
IsDigit(tok) == \E n \in 0..9 : Digits[n + 1] = tok

ParseFail == [ok |-> FALSE, v |-> Undefined, next |-> 0]
ParseOk(v, next) == [ok |-> TRUE, v |-> v, next |-> next]

\* the index of the first quote at or after i, 0 when there is none
RECURSIVE QuoteFrom(_, _)
QuoteFrom(text, i) ==
    IF i > Len(text) THEN 0
    ELSE IF text[i] = Quote THEN i
    ELSE QuoteFrom(text, i + 1)

\* a string literal whose opening quote is at i and closing quote at j
StringUpTo(text, i, j) ==
    IF j = 0 THEN ParseFail ELSE ParseOk(StrV(SubSeq(text, i + 1, j - 1)), j + 1)

\* a string literal starting at index i
ParseString(text, i) ==
    IF i > Len(text) \/ text[i] # Quote THEN ParseFail
    ELSE StringUpTo(text, i, QuoteFrom(text, i + 1))

RECURSIVE ParseValue(_, _)
RECURSIVE ParseMembers(_, _, _, _)
RECURSIVE MemberValue(_, _, _, _, _)

\* a member whose key k is read and whose value parsed as val: the closing
\* bracket ends the array or object, a comma brings the next member
MemberValue(text, isObj, acc, k, val) ==
    IF ~val.ok \/ val.next > Len(text) THEN ParseFail
    ELSE IF text[val.next] = (IF isObj THEN "}" ELSE "]")
    THEN ParseOk(JSV(IF isObj THEN "obj" ELSE "arr", FALSE, 0, <<>>,
                     Append(acc, KV(k, val.v))), val.next + 1)
    ELSE IF text[val.next] = ","
    THEN ParseMembers(text, val.next + 1, isObj, Append(acc, KV(k, val.v)))
    ELSE ParseFail

\* an object's member whose key parsed as key: a colon, then the value
MemberKey(text, acc, key) ==
    IF key.ok /\ key.next <= Len(text) /\ text[key.next] = ":"
    THEN MemberValue(text, TRUE, acc, key.v.s, ParseValue(text, key.next + 1))
    ELSE ParseFail

\* the members of an array or object from index i, up to and including the
\* closing bracket; acc: the members read so far
ParseMembers(text, i, isObj, acc) ==
    IF isObj THEN MemberKey(text, acc, ParseString(text, i))
    ELSE MemberValue(text, FALSE, acc, <<>>, ParseValue(text, i))

\* an array or object whose opening bracket is at i
ParseBracket(text, i, isObj) ==
    IF i + 1 <= Len(text) /\ text[i + 1] = (IF isObj THEN "}" ELSE "]")
    THEN ParseOk(JSV(IF isObj THEN "obj" ELSE "arr", FALSE, 0, <<>>, <<>>), i + 2)
    ELSE ParseMembers(text, i + 1, isObj, <<>>)

ParseValue(text, i) ==
    IF i > Len(text) THEN ParseFail
    ELSE CASE text[i] = "null"  -> ParseOk(Null, i + 1)
           [] text[i] = "true"  -> ParseOk(BoolV(TRUE), i + 1)
           [] text[i] = "false" -> ParseOk(BoolV(FALSE), i + 1)
           [] IsDigit(text[i])  -> ParseOk(NumV(DigitValue(text[i])), i + 1)
           [] text[i] = Quote   -> ParseString(text, i)
           [] text[i] \in {"[", "{"} -> ParseBracket(text, i, text[i] = "{")
           [] OTHER             -> ParseFail

\* the whole text must be one value
WholeText(text, r) ==
    IF r.ok /\ r.next = Len(text) + 1 THEN [ok |-> TRUE, v |-> r.v]
    ELSE [ok |-> FALSE, v |-> Undefined]

\* JSON.parse(text): [ok, v]; not ok is the SyntaxError
JSONParse(text) == WholeText(text, ParseValue(text, 1))

\* ------------------------------------------------------------------------
\* Inputs the environment supplies
\* ------------------------------------------------------------------------

pX == <<"/", "x">>
pY == <<"/", "y">>
Paths == {pX, pY}

BaseURLs == {<<"h", ":", "a">>, <<"h", ":", "b">>}

\* what a token provider yields: nothing, the empty string, a token
Tokens == {Undefined, StrV(<<>>), StrV(<<"t", "1">>), StrV(<<"t", "2">>)}

\* body arguments: undefined, the falsy values, and truthy ones
Bodies ==
    {Undefined, Null, BoolV(FALSE), BoolV(TRUE), NumV(0), NumV(1), StrV(<<>>),
     StrV(<<"a">>), ArrV(<<>>), ObjV(<<>>), ObjV(<<KV(<<"a">>, NumV(1))>>),
     ArrV(<<NumV(1), Null>>)}

TokenKinds == {"absent", "sync", "async"}
\* fails: the provider throws (a sync one) or its Promise rejects (an async
\* one) instead of yielding
Configs ==
    [baseURL : BaseURLs, tokenKind : TokenKinds, token : Tokens, fails : {FALSE}]
    \cup [baseURL : BaseURLs, tokenKind : {"sync", "async"}, token : {Undefined},
          fails : {TRUE}]

\* upstream answers: a network error, or a status with a body text
Statuses == {200, 204, 299, 300, 404, 500}
NotJSON == <<"<", "h", ">">>
ResponseTexts ==
    {<<>>, NotJSON, JSONText(NumV(0)), JSONText(Null),
     JSONText(ObjV(<<KV(<<"a">>, NumV(1))>>)),
     JSONText(ObjV(<<KV(sError, StrV(<<"n", "o">>))>>))}
NetworkError == [kind |-> "network", status |-> 0, text |-> <<>>]
Http(status, text) == [kind |-> "http", status |-> status, text |-> text]
NoResponse == [kind |-> "none", status |-> 0, text |-> <<>>]
UpstreamOutcomes ==
    {NetworkError} \cup {Http(st, tx) : st \in Statuses, tx \in ResponseTexts}

\* ------------------------------------------------------------------------
\* createServerClient: request(method, path, body)
\* ------------------------------------------------------------------------

\* config.getToken(): the provider's return value. An async provider returns
\* a Promise; request does not await it.
GetToken(cfg) == IF cfg.tokenKind = "async" THEN PromiseV ELSE cfg.token

\* `${token}`: a string is itself, a Promise is "[object Promise]"
ToStringV(v) == IF v.t = "str" THEN v.s ELSE sObjectPromise

\* the Authorization header request sets (Undefined: not set)
AuthorizationHeader(cfg) ==
    IF cfg.tokenKind # "absent"
    THEN LET token == GetToken(cfg) IN
         IF Truthy(token) THEN StrV(sBearer \o ToStringV(token)) ELSE Undefined
    ELSE Undefined

\* the Content-Type header request sets (Undefined: not set)
ContentTypeHeader(body) == IF Truthy(body) THEN StrV(sApplicationJson) ELSE Undefined

NoPayload == [sent |-> FALSE, text |-> <<>>]
\* the body option given to fetch
RequestPayload(body) ==
    IF Truthy(body) THEN [sent |-> TRUE, text |-> JSONText(body)] ELSE NoPayload

\* the call fetch(url, {method, headers, body})
BuildRequest(cfg, method, path, body) ==
    [url         |-> cfg.baseURL \o path,
     method      |-> method,
     auth        |-> AuthorizationHeader(cfg),
     contentType |-> ContentTypeHeader(body),
     payload     |-> RequestPayload(body)]

ResponseOkBelow400(status) == status >= 200 /\ status <= 399

\* response.ok
ResponseOk(status) == status >= 200 /\ status <= 299

Pending == [kind |-> "pending", value |-> Undefined, err |-> "none", status |-> 0]
Resolved(v) == [kind |-> "resolved", value |-> v, err |-> "none", status |-> 0]
\* a rejection: the error's name, and the status its message carries (0: none)
Rejected(err, status) ==
    [kind |-> "rejected", value |-> Undefined, err |-> err, status |-> status]

\* request after fetch settles with r: fetch's own rejection propagates, a
\* response that is not ok throws Error("Request failed: <status>"), an ok
\* one goes on to response.json()
AfterFetch(r) ==
    IF r.kind = "network" THEN Rejected("TypeError", 0)
    ELSE IF ~ResponseOk(r.status) THEN Rejected("Error", r.status)
    ELSE Pending

\* request after response.json() settles
JsonOutcome(p) == IF p.ok THEN Resolved(p.v) ELSE Rejected("SyntaxError", 0)
AfterJson(r) == JsonOutcome(JSONParse(r.text))

\* how a request call ends when the upstream answers r
DispatchOutcome(r) == IF ResponseOk(r.status) /\ r.kind = "http" THEN AfterJson(r) ELSE AfterFetch(r)

ClientBodyAlways(method, body) == body

\* the body argument each client method hands to request
ClientMethods == {sGET, sPOST, sPUT, sDELETE}
ClientBody(method, body) == IF method \in {sPOST, sPUT} THEN body ELSE Undefined

\* ------------------------------------------------------------------------
\* The proxy route (README, app/api/proxy/route.ts)
\* ------------------------------------------------------------------------

ALLOWED_METHODS == {sGET, sPOST, sPUT, sDELETE}

\* NextResponse.json(value, {status})
JsonResponse(status, v) == Http(status, JSONText(v))
ErrorBody(msg) == ObjV(<<KV(sError, StrV(msg))>>)

NonEmptyPath(s) == Len(s) >= 1

\* path.startsWith("/")
StartsWithSlash(s) == Len(s) >= 1 /\ s[1] = "/"

\* the 400 answer, as the result of the route's checks
ProxyBad(msg) ==
    [ok |-> FALSE, method |-> <<>>, path |-> <<>>, body |-> Undefined,
     resp |-> JsonResponse(400, ErrorBody(msg))]

\* the checks of method and path
ProxyCheckFields(method, path, body) ==
    IF ~(method.t = "str" /\ method.s \in ALLOWED_METHODS) THEN ProxyBad(sInvalidMethod)
    ELSE IF ~(path.t = "str" /\ StartsWithSlash(path.s)) THEN ProxyBad(sInvalidPath)
    ELSE [ok |-> TRUE, method |-> method.s, path |-> path.s, body |-> body,
          resp |-> NoResponse]

\* const { method, path, body } = payload
ProxyDestructure(payload) ==
    ProxyCheckFields(Prop(payload, sMethod), Prop(payload, sPath), Prop(payload, sBody))

\* the route on what req.json() gave: payload ?? {}
ProxyOnJson(p) ==
    IF ~p.ok THEN ProxyBad(sInvalidJSONBody)
    ELSE ProxyDestructure(IF p.v.t \in {"null", "undefined"} THEN ObjV(<<>>) ELSE p.v)

\* req.json(), the destructuring and the two checks: [ok, method, path,
\* body, resp], resp being the 400 answer when not ok
ProxyCheck(raw) == ProxyOnJson(JSONParse(raw))

\* the try/catch around the client call: the data, or a fixed 500
ProxyAnswer(result) ==
    IF result.kind = "resolved" THEN JsonResponse(200, result.value)
    ELSE JsonResponse(500, ErrorBody(sRequestFailed))

\* the route's answer to the raw request body when the upstream answers u
ProxyReplyChecked(c, u) == IF c.ok THEN ProxyAnswer(DispatchOutcome(u)) ELSE c.resp
ProxyReply(raw, u) == ProxyReplyChecked(ProxyCheck(raw), u)

\* request bodies the route may receive
Descriptor(m, p, b) == ObjV(<<KV(sMethod, m), KV(sPath, p), KV(sBody, b)>>)
ProxyPayloads ==
    {<<>>, NotJSON, JSONText(Null), JSONText(NumV(5)), JSONText(ArrV(<<>>)),
     JSONText(ObjV(<<>>)), JSONText(StrV(sGET))}
    \cup {JSONText(Descriptor(m, p, b)) :
            m \in {Undefined, NumV(1), StrV(sGET), StrV(sPOST), StrV(sPUT),
                   StrV(sDELETE), StrV(sPATCH), StrV(<<"g", "e", "t">>)},
            p \in {Undefined, NumV(1), StrV(pX), StrV(<<"x">>), StrV(<<>>),
                   StrV(<<"/">>)},
            b \in {Undefined, NumV(0), ObjV(<<KV(<<"a">>, NumV(1))>>)}}

\* ------------------------------------------------------------------------
\* State
\* ------------------------------------------------------------------------

VARIABLES
    sPc,         \* the server-side call: "off", "idle", "fetch", "json", "settled", "responded"
    sEntry,      \* who called: "none", "client", "serverQuery", "proxy"
    sCfg,        \* the ServerClientConfig of the call
    sCall,       \* the client method called: [method, path, body]
    upstream,    \* the fetch calls made to the upstream API, in order
    tokenCalls,  \* how many times the token provider was invoked
    decodeCalls, \* how many times response.json() was called
    sResp,       \* what the upstream answered
    sResult,     \* how the promise of request settled
    pxRaw,       \* the raw body of the request the proxy route received
    pxResp       \* the proxy route's answer

serverVars ==
    <<sPc, sEntry, sCfg, sCall, upstream, tokenCalls, decodeCalls, sResp, sResult,
      pxRaw, pxResp>>

VARIABLES
    abortable,   \* whether the browser's fetch honours an AbortSignal
    qPhase,      \* useAutoQuery's component: "off", "init", "mounted", "unmounted"
    qState,      \* useAutoQuery's state: [data, error, loading]
    qReqs,       \* one entry per run of useAutoQuery's effect, in order
    mPhase,      \* useAutoMutation's component: "off", "mounted", "unmounted"
    mCfg,        \* useAutoMutation's arguments: [path, method]
    mState,      \* useAutoMutation's state: [data, error, loading]
    mReqs        \* one entry per call of mutate, in order

queryVars == <<qPhase, qState, qReqs>>
mutationVars == <<mPhase, mCfg, mState, mReqs>>
vars == <<serverVars, abortable, queryVars, mutationVars>>

NoCfg == [baseURL |-> <<>>, tokenKind |-> "absent", token |-> Undefined, fails |-> FALSE]
NoCall == [method |-> <<>>, path |-> <<>>, body |-> Undefined]

ServerAt(pc) ==
    /\ sPc = pc
    /\ sEntry = "none"
    /\ sCfg = NoCfg
    /\ sCall = NoCall
    /\ upstream = <<>>
    /\ tokenCalls = 0
    /\ decodeCalls = 0
    /\ sResp = NoResponse
    /\ sResult = Pending
    /\ pxRaw = <<>>
    /\ pxResp = NoResponse

\* ------------------------------------------------------------------------
\* Server-side operations
\* ------------------------------------------------------------------------

FetchTwice(sent, req) == Append(Append(sent, req), req)

\* the one call of fetch in request: sent is the upstream's log of requests
Fetch(sent, req) == Append(sent, req)

\* config.getToken() throws: only a synchronous provider can, the rejection
\* of an async provider's Promise is never observed by request
ProviderThrows(cfg) == cfg.tokenKind = "sync" /\ cfg.fails

\* request(method, path, body) up to its await of fetch, or up to the
\* exception of the token provider, which rejects the call before any fetch
StartRequest(cfg, method, path, body) ==
    /\ sCfg' = cfg
    /\ sCall' = [method |-> method, path |-> path, body |-> body]
    /\ tokenCalls' = tokenCalls + (IF cfg.tokenKind # "absent" THEN 1 ELSE 0)
    /\ IF ProviderThrows(cfg)
       THEN /\ upstream' = upstream
            /\ sResult' = Rejected("ProviderError", 0)
            /\ sPc' = "settled"
       ELSE /\ upstream' = Fetch(upstream, BuildRequest(cfg, method, path, body))
            /\ sResult' = Pending
            /\ sPc' = "fetch"

\* client.get / post / put / delete called directly; get and delete take
\* one parameter, so a second argument given to them is dropped
ClientCall ==
    /\ sPc = "idle"
    /\ \E cfg \in Configs, method \in ClientMethods, path \in Paths, body \in Bodies :
          StartRequest(cfg, method, path, ClientBody(method, body))
    /\ sEntry' = "client"
    /\ UNCHANGED <<decodeCalls, sResp, pxRaw, pxResp, abortable, queryVars, mutationVars>>

\* the configuration serverQuery and the proxy route build: API_URL, and an
\* async provider reading the accessToken cookie
CookieConfig(apiUrl, cookie, fails) ==
    [baseURL |-> apiUrl, tokenKind |-> "async",
     token |-> IF fails THEN Undefined ELSE cookie, fails |-> fails]

\* serverQuery(path)
ServerQueryCall ==
    /\ sPc = "idle"
    /\ \E apiUrl \in BaseURLs, cookie \in Tokens, fails \in BOOLEAN, path \in Paths :
          StartRequest(CookieConfig(apiUrl, cookie, fails), sGET, path, Undefined)
    /\ sEntry' = "serverQuery"
    /\ UNCHANGED <<decodeCalls, sResp, pxRaw, pxResp, abortable, queryVars, mutationVars>>

\* POST of the proxy route, up to its answer (400) or its await of the client
ProxyPOST ==
    /\ sPc = "idle"
    /\ \E raw \in ProxyPayloads, apiUrl \in BaseURLs, cookie \in Tokens,
          fails \in BOOLEAN :
          LET c == ProxyCheck(raw) IN
          /\ pxRaw' = raw
          /\ IF c.ok
             THEN /\ StartRequest(CookieConfig(apiUrl, cookie, fails), c.method, c.path,
                                  ClientBody(c.method, c.body))
                  /\ pxResp' = NoResponse
             ELSE /\ pxResp' = c.resp
                  /\ sPc' = "responded"
                  /\ UNCHANGED <<sCfg, sCall, upstream, tokenCalls, sResult>>
    /\ sEntry' = "proxy"
    /\ UNCHANGED <<decodeCalls, sResp, abortable, queryVars, mutationVars>>

\* fetch settles: the upstream answered, or the network failed
FetchSettles ==
    /\ sPc = "fetch"
    /\ \E r \in UpstreamOutcomes :
          LET a == AfterFetch(r) IN
          /\ sResp' = r
          /\ sResult' = a
          /\ sPc' = IF a.kind = "pending" THEN "json" ELSE "settled"
          /\ decodeCalls' = decodeCalls + (IF a.kind = "pending" THEN 1 ELSE 0)
    /\ UNCHANGED <<sEntry, sCfg, sCall, upstream, tokenCalls, pxRaw, pxResp,
                   abortable, queryVars, mutationVars>>

\* response.json() settles
JsonSettles ==
    /\ sPc = "json"
    /\ sResult' = AfterJson(sResp)
    /\ sPc' = "settled"
    /\ UNCHANGED <<sEntry, sCfg, sCall, upstream, tokenCalls, decodeCalls, sResp,
                   pxRaw, pxResp, abortable, queryVars, mutationVars>>

\* the proxy route answers once its client call has settled
ProxyRespond ==
    /\ sPc = "settled"
    /\ sEntry = "proxy"
    /\ pxResp' = ProxyAnswer(sResult)
    /\ sPc' = "responded"
    /\ UNCHANGED <<sEntry, sCfg, sCall, upstream, tokenCalls, decodeCalls, sResp,
                   sResult, pxRaw, abortable, queryVars, mutationVars>>

NextServer ==
    \/ ClientCall
    \/ ServerQueryCall
    \/ ProxyPOST
    \/ FetchSettles
    \/ JsonSettles
    \/ ProxyRespond

\* ------------------------------------------------------------------------
\* The client hooks: what they share
\* ------------------------------------------------------------------------

MaxActivations == 2
MaxMutations == 2

HookPaths == Paths \cup {<<"x">>}
MutationMethods == {sPOST, sPUT, sDELETE}
MutateBodies == {Undefined, ObjV(<<KV(<<"a">>, NumV(1))>>)}

HookState(data, error, loading) == [data |-> data, error |-> error, loading |-> loading]

\* what the upstream API may answer to the proxy route's request
HookUpstreamOutcomes ==
    {NetworkError, Http(200, JSONText(ObjV(<<KV(<<"a">>, NumV(1))>>))),
     Http(204, <<>>), Http(404, JSONText(ObjV(<<KV(sError, StrV(<<"n", "o">>))>>)))}

\* how fetch("/api/proxy", ...) may settle for a request that is not
\* cancelled: a network error, the route's answer, or an answer that is not
\* the route's and not JSON (the host's own error page)
HookOutcomes(raw) ==
    {NetworkError, Http(502, NotJSON)}
    \cup {ProxyReply(raw, u) : u \in HookUpstreamOutcomes}

\* a request a hook has issued: its AbortController's signal, where its
\* async function stands, the response, how it ended ("none", "success" or
\* the name of the error caught), the promise of the async function and the
\* setState calls it made after the request was issued
NewReq(path, raw) ==
    [path |-> path, payload |-> raw, aborted |-> FALSE, pc |-> "fetch",
     resp |-> NoResponse, outcome |-> "none", promise |-> Pending, writes |-> 0]

\* a fetch whose signal is aborted rejects with an AbortError, and so does
\* the reading of its body, when the transport honours the signal
Cancelled(req) == req.aborted /\ abortable

\* controller.abort()
Abort(req) == [req EXCEPT !.aborted = TRUE]

\* React applies a state update of a mounted component and drops that of an
\* unmounted one
Commit(phase, old, new) == IF phase = "mounted" THEN new ELSE old

\* ------------------------------------------------------------------------
\* useAutoQuery
\* ------------------------------------------------------------------------

QueryInitialState == HookState(Undefined, Undefined, TRUE)

\* JSON.stringify({method: "GET", path})
QueryPayload(path) ==
    JSONText(ObjV(<<KV(sMethod, StrV(sGET)), KV(sPath, StrV(path))>>))

QueryOnDataStillLoading(data) == HookState(data, Undefined, TRUE)

\* setState({data, loading: false})
QueryOnData(data) == HookState(data, Undefined, FALSE)

QueryCatchAnyError(old, errName) ==
    [set |-> TRUE, state |-> HookState(Undefined, StrV(sRequestFailed), FALSE)]

\* the catch block: [set, state], set telling whether setState is called
QueryCatch(old, errName) ==
    IF errName = "AbortError"
    THEN [set |-> FALSE, state |-> old]
    ELSE [set |-> TRUE, state |-> HookState(Undefined, StrV(sRequestFailed), FALSE)]

\* the effect's cleanup: abort the controller of the effect's last run
QueryCleanup(reqs) ==
    IF reqs = <<>> THEN reqs ELSE [reqs EXCEPT ![Len(reqs)] = Abort(@)]

\* the effect: issue the request for path
QueryEffect(reqs, path) == Append(reqs, NewReq(path, QueryPayload(path)))

\* request i ends by the catch block with the error named
QueryThrow(i, errName) ==
    LET c == QueryCatch(qState, errName) IN
    /\ qState' = IF c.set THEN Commit(qPhase, qState, c.state) ELSE c.state
    /\ qReqs' = [qReqs EXCEPT ![i] =
                  [@ EXCEPT !.pc = "done",
                            !.outcome = errName,
                            !.promise = Resolved(Undefined),
                            !.writes = @ + (IF c.set THEN 1 ELSE 0)]]

\* the first render is committed and the effect runs
QMount ==
    /\ qPhase = "init"
    /\ \E path \in HookPaths : qReqs' = QueryEffect(qReqs, path)
    /\ qPhase' = "mounted"
    /\ UNCHANGED <<qState, serverVars, abortable, mutationVars>>

\* a render with another path: the cleanup, then the effect again
QPathChange ==
    /\ qPhase = "mounted"
    /\ Len(qReqs) < MaxActivations
    /\ \E path \in HookPaths \ {qReqs[Len(qReqs)].path} :
          qReqs' = QueryEffect(QueryCleanup(qReqs), path)
    /\ UNCHANGED <<qPhase, qState, serverVars, abortable, mutationVars>>

\* the component unmounts: the cleanup
QUnmount ==
    /\ qPhase = "mounted"
    /\ qReqs' = QueryCleanup(qReqs)
    /\ qPhase' = "unmounted"
    /\ UNCHANGED <<qState, serverVars, abortable, mutationVars>>

\* the fetch of request i settles
QFetchSettles ==
    /\ \E i \in 1..Len(qReqs) :
          /\ qReqs[i].pc = "fetch"
          /\ IF Cancelled(qReqs[i]) THEN QueryThrow(i, "AbortError")
             ELSE \E r \in HookOutcomes(qReqs[i].payload) :
                    IF r.kind = "network" THEN QueryThrow(i, "TypeError")
                    ELSE /\ qReqs' = [qReqs EXCEPT ![i] = [@ EXCEPT !.pc = "json", !.resp = r]]
                         /\ qState' = qState
    /\ UNCHANGED <<qPhase, serverVars, abortable, mutationVars>>

\* res.json() of request i settles
QJsonSettles ==
    /\ \E i \in 1..Len(qReqs) :
          /\ qReqs[i].pc = "json"
          /\ LET p == JSONParse(qReqs[i].resp.text) IN
             IF Cancelled(qReqs[i]) THEN QueryThrow(i, "AbortError")
             ELSE IF ~p.ok THEN QueryThrow(i, "SyntaxError")
             ELSE /\ qState' = Commit(qPhase, qState, QueryOnData(p.v))
                  /\ qReqs' = [qReqs EXCEPT ![i] =
                                [@ EXCEPT !.pc = "done", !.outcome = "success",
                                          !.promise = Resolved(Undefined),
                                          !.writes = @ + 1]]
    /\ UNCHANGED <<qPhase, serverVars, abortable, mutationVars>>

NextQuery ==
    \/ QMount
    \/ QPathChange
    \/ QUnmount
    \/ QFetchSettles
    \/ QJsonSettles

\* ------------------------------------------------------------------------
\* useAutoMutation
\* ------------------------------------------------------------------------

MutationInitialState == HookState(Undefined, Undefined, FALSE)

\* JSON.stringify({method, path, body})
MutationPayload(cfg, body) ==
    JSONText(Descriptor(StrV(cfg.method), StrV(cfg.path), body))

\* setState({loading: true, data: undefined, error: undefined})
MutationOnStart == HookState(Undefined, Undefined, TRUE)

\* setState({data, loading: false})
MutationOnData(data) == HookState(data, Undefined, FALSE)

\* the catch block: [set, state, promise]; an AbortError returns (the
\* promise resolves with undefined), any other error is set and thrown again
MutationCatch(old, errName) ==
    IF errName = "AbortError"
    THEN [set |-> FALSE, state |-> old, promise |-> Resolved(Undefined)]
    ELSE [set |-> TRUE, state |-> HookState(Undefined, StrV(sRequestFailed), FALSE),
          promise |-> Rejected(errName, 0)]

\* what unmounting does to the requests in flight: the hook registers no
\* cleanup and never calls controller.abort()
MutationCleanup(reqs) == reqs

\* request i ends by the catch block with the error named
MutationThrow(i, errName) ==
    LET c == MutationCatch(mState, errName) IN
    /\ mState' = IF c.set THEN Commit(mPhase, mState, c.state) ELSE c.state
    /\ mReqs' = [mReqs EXCEPT ![i] =
                  [@ EXCEPT !.pc = "done",
                            !.outcome = errName,
                            !.promise = c.promise,
                            !.writes = @ + (IF c.set THEN 1 ELSE 0)]]

\* mutate(body), up to its await of fetch
Mutate ==
    /\ mPhase = "mounted"
    /\ Len(mReqs) < MaxMutations
    /\ \E body \in MutateBodies :
          mReqs' = Append(mReqs, NewReq(mCfg.path, MutationPayload(mCfg, body)))
    /\ mState' = Commit(mPhase, mState, MutationOnStart)
    /\ UNCHANGED <<mPhase, mCfg, serverVars, abortable, queryVars>>

\* the component unmounts
MUnmount ==
    /\ mPhase = "mounted"
    /\ mPhase' = "unmounted"
    /\ mReqs' = MutationCleanup(mReqs)
    /\ UNCHANGED <<mCfg, mState, serverVars, abortable, queryVars>>

\* the fetch of request i settles
MFetchSettles ==
    /\ \E i \in 1..Len(mReqs) :
          /\ mReqs[i].pc = "fetch"
          /\ IF Cancelled(mReqs[i]) THEN MutationThrow(i, "AbortError")
             ELSE \E r \in HookOutcomes(mReqs[i].payload) :
                    IF r.kind = "network" THEN MutationThrow(i, "TypeError")
                    ELSE /\ mReqs' = [mReqs EXCEPT ![i] = [@ EXCEPT !.pc = "json", !.resp = r]]
                         /\ mState' = mState
    /\ UNCHANGED <<mPhase, mCfg, serverVars, abortable, queryVars>>

\* res.json() of request i settles
MJsonSettles ==
    /\ \E i \in 1..Len(mReqs) :
          /\ mReqs[i].pc = "json"
          /\ LET p == JSONParse(mReqs[i].resp.text) IN
             IF Cancelled(mReqs[i]) THEN MutationThrow(i, "AbortError")
             ELSE IF ~p.ok THEN MutationThrow(i, "SyntaxError")
             ELSE /\ mState' = Commit(mPhase, mState, MutationOnData(p.v))
                  /\ mReqs' = [mReqs EXCEPT ![i] =
                                [@ EXCEPT !.pc = "done", !.outcome = "success",
                                          !.promise = Resolved(p.v),
                                          !.writes = @ + 1]]
    /\ UNCHANGED <<mPhase, mCfg, serverVars, abortable, queryVars>>

NextMutation ==
    \/ Mutate
    \/ MUnmount
    \/ MFetchSettles
    \/ MJsonSettles

\* ------------------------------------------------------------------------
\* Specifications: the server side, and each hook in its component
\* ------------------------------------------------------------------------

QueryAt(phase) ==
    /\ qPhase = phase
    /\ qState = QueryInitialState
    /\ qReqs = <<>>

MutationAt(phase) ==
    /\ mPhase = phase
    /\ mState = MutationInitialState
    /\ mReqs = <<>>

NoMutationCfg == [path |-> <<>>, method |-> <<>>]

InitServer ==
    /\ ServerAt("idle")
    /\ abortable = TRUE
    /\ QueryAt("off")
    /\ MutationAt("off")
    /\ mCfg = NoMutationCfg

InitQuery ==
    /\ ServerAt("off")
    /\ abortable \in BOOLEAN
    /\ QueryAt("init")
    /\ MutationAt("off")
    /\ mCfg = NoMutationCfg

InitMutation ==
    /\ ServerAt("off")
    /\ abortable \in BOOLEAN
    /\ QueryAt("off")
    /\ MutationAt("mounted")
    /\ mCfg \in [path : HookPaths, method : MutationMethods]

SpecServer == InitServer /\ [][NextServer]_vars
SpecQuery == InitQuery /\ [][NextQuery]_vars
SpecMutation == InitMutation /\ [][NextMutation]_vars

\* a component using either hook
InitHooks == InitQuery \/ InitMutation
NextHooks == NextQuery \/ NextMutation
SpecHooks == InitHooks /\ [][NextHooks]_vars

Init == InitServer \/ InitQuery \/ InitMutation
Next == NextServer \/ NextQuery \/ NextMutation
Spec == Init /\ [][Next]_vars

\* ------------------------------------------------------------------------
\* Properties of the dispatcher, serverQuery and the proxy route
\* ------------------------------------------------------------------------

Called(entry) == sEntry = entry /\ upstream # <<>>
Settled == sPc \in {"settled", "responded"}
Sent == upstream[1]

\* C1: the request of a direct client call carries no Authorization header
\* when the token provider is absent or yields no token (undefined or the
\* empty string), and exactly "Bearer X" when it yields the non-empty token
\* X, X being what an asynchronous provider resolves to (a provider that
\* fails yields nothing and is not the claim's case).
C1_AuthorizationFollowsToken ==
    (Called("client") /\ ~sCfg.fails) =>
        IF sCfg.tokenKind = "absent" \/ ~Truthy(sCfg.token)
        THEN Sent.auth = Undefined
        ELSE Sent.auth = StrV(sBearer \o sCfg.token.s)

\* C2, as claimed: a status >= 300 rejects with that status and nothing is
\* decoded; every status in [200,300) resolves with the decoded body.
C2_EverySuccessStatusResolves ==
    (Settled /\ sResp.kind = "http") =>
        /\ sResp.status >= 300 =>
              sResult = Rejected("Error", sResp.status) /\ decodeCalls = 0
        /\ (sResp.status >= 200 /\ sResp.status < 300) =>
              sResult = Resolved(JSONParse(sResp.text).v)

\* C2, amended: a status >= 300 rejects with that status and nothing is
\* decoded; a status in [200,300) resolves with the decoded body when the
\* body is JSON, and rejects, carrying no status, when it is not.
C2_StatusDecidesOutcome ==
    (Settled /\ sResp.kind = "http") =>
        /\ sResp.status >= 300 =>
              sResult = Rejected("Error", sResp.status) /\ decodeCalls = 0
        /\ (sResp.status >= 200 /\ sResp.status < 300) =>
              /\ decodeCalls = 1
              /\ IF JSONParse(sResp.text).ok
                 THEN sResult = Resolved(JSONParse(sResp.text).v)
                 ELSE sResult.kind = "rejected" /\ sResult.status = 0

C2_Witness ==
    /\ sEntry = "client"
    /\ sPc = "settled"
    /\ sResp.status = 299
    /\ sResult = Resolved(ObjV(<<KV(<<"a">>, NumV(1))>>))

\* C3: a post or put whose body argument is defined (0, false, "" and null
\* included) sends a JSON Content-Type and a payload that decodes to a
\* value equal to the argument.
C3_DefinedBodyIsSent ==
    (Called("client") /\ sCall.method \in {sPOST, sPUT} /\ sCall.body # Undefined) =>
        /\ Sent.contentType = StrV(sApplicationJson)
        /\ Sent.payload.sent
        /\ JSONParse(Sent.payload.text) = [ok |-> TRUE, v |-> sCall.body]

\* C4: serverQuery(path) issues one GET to API_URL followed by path, with no
\* body, with "Bearer <cookie value>" when the accessToken cookie is present
\* and no Authorization header when it is absent, and settles as the
\* dispatcher does for the upstream's answer (the cookie store being
\* readable).
C4_ServerQueryIsAuthorizedGet ==
    (Called("serverQuery") /\ ~sCfg.fails) =>
        /\ Len(upstream) = 1
        /\ Sent.method = sGET
        /\ Sent.url = sCfg.baseURL \o sCall.path
        /\ ~Sent.payload.sent /\ Sent.contentType = Undefined
        /\ Sent.auth = IF sCfg.token = Undefined THEN Undefined
                       ELSE StrV(sBearer \o sCfg.token.s)
        /\ Settled => sResult = DispatchOutcome(sResp)

\* a request body the route must forward: JSON, an object, a method among
\* the four verbs, a path that is a string starting with "/"
ValidFields(method, path) ==
    /\ method \in {StrV(sGET), StrV(sPOST), StrV(sPUT), StrV(sDELETE)}
    /\ path.t = "str"
    /\ path.s # <<>>
    /\ Head(path.s) = "/"
ValidPayload(p) == p.ok /\ ValidFields(Prop(p.v, sMethod), Prop(p.v, sPath))
ValidDescriptor(raw) == ValidPayload(JSONParse(raw))

\* C5: the proxy route calls the dispatcher (and so the upstream) if and
\* only if the request body is a valid descriptor; otherwise it answers 400
\* with an {error} body, no upstream request is made and the token provider
\* is never invoked.
C5_ProxyForwardsOnlyValidDescriptors ==
    sEntry = "proxy" =>
        /\ upstream # <<>> <=> ValidDescriptor(pxRaw)
        /\ ~ValidDescriptor(pxRaw) =>
              /\ sPc = "responded"
              /\ pxResp.kind = "http" /\ pxResp.status = 400
              /\ Prop(JSONParse(pxResp.text).v, sError).t = "str"
              /\ upstream = <<>>
              /\ tokenCalls = 0

C5_Witness ==
    /\ sEntry = "proxy"
    /\ pxRaw = JSONText(Descriptor(StrV(sGET), StrV(<<"x">>), Undefined))
    /\ pxResp.status = 400
    /\ upstream = <<>>

\* ------------------------------------------------------------------------
\* Properties of useAutoQuery
\* ------------------------------------------------------------------------

\* request i of reqs ends in this step
Ends(reqs, reqsNext, i) == reqs[i].pc # "done" /\ reqsNext[i].pc = "done"

\* C6: once the hook is reactivated with another path while an earlier
\* request is unresolved, no completion of the earlier request (success,
\* decode failure, network failure) changes the hook state.
C6_SupersededRequestNeverWrites ==
    [][\A i \in 1..Len(qReqs) :
          (i < Len(qReqs) /\ Ends(qReqs, qReqs', i)) => qState' = qState]_vars

\* C8: unmounting, or a render with another path, raises the abort signal
\* of the request in flight, and a request that ends with the AbortError
\* calls no setState and leaves data, error and loading as they were.
C8_CleanupAbortsAndAbortIsSilent ==
    /\ [](\A i \in 1..Len(qReqs) :
            (i < Len(qReqs) \/ qPhase = "unmounted") => qReqs[i].aborted)
    /\ [][\A i \in 1..Len(qReqs) :
            (Ends(qReqs, qReqs', i) /\ qReqs'[i].outcome = "AbortError") =>
                /\ qState' = qState
                /\ qReqs'[i].writes = qReqs[i].writes]_vars

C8_Witness ==
    /\ qPhase = "mounted"
    /\ Len(qReqs) = 2
    /\ qReqs[1].aborted /\ qReqs[1].outcome = "AbortError"
    /\ qReqs[2].outcome = "success"
    /\ qState.data # Undefined

\* ------------------------------------------------------------------------
\* Properties of useAutoMutation
\* ------------------------------------------------------------------------

\* C7: once mutate is called again before an earlier call's request has
\* completed, the earlier call's completion writes neither data, error nor
\* loading: the state reflects the latest call only.
C7_EarlierMutateNeverWrites ==
    [][\A i \in 1..Len(mReqs) :
          (i < Len(mReqs) /\ Ends(mReqs, mReqs', i)) => mState' = mState]_vars

\* C9: when the component unmounts while a mutate call is in flight, the
\* request is cancelled, and from then on the call's promise is neither
\* resolved nor rejected and the call performs no state update.
C9_UnmountAbandonsMutate ==
    /\ [](\A i \in 1..Len(mReqs) :
            (mPhase = "unmounted" /\ mReqs[i].pc # "done") => mReqs[i].aborted)
    /\ [][mPhase = "unmounted" =>
            \A i \in 1..Len(mReqs) :
                /\ mReqs'[i].promise = mReqs[i].promise
                /\ mReqs'[i].writes = mReqs[i].writes]_vars

ErrorState == HookState(Undefined, StrV(sRequestFailed), FALSE)

\* a request that ended in a failure other than a cancellation: a network
\* error, an answer that is not JSON, or an answer with a non-2xx status
\* (the route's 400 for a rejected input, its 500 for a failed dispatch)
FailedRequest(req) ==
    \/ req.outcome \in {"TypeError", "SyntaxError"}
    \/ req.resp.kind = "http" /\ (req.resp.status < 200 \/ req.resp.status > 299)

\* C10: every mutate call that ends in a failure other than a cancellation
\* leaves error set to the generic message, data unset and loading false,
\* and its promise rejects.
C10_FailedMutateSetsErrorAndRejects ==
    [][\A i \in 1..Len(mReqs) :
          (mPhase = "mounted" /\ Ends(mReqs, mReqs', i) /\ FailedRequest(mReqs'[i])) =>
              /\ mState' = ErrorState
              /\ mReqs'[i].promise.kind = "rejected"]_vars

\* ------------------------------------------------------------------------
\* Further properties of useAutoQuery
\* ------------------------------------------------------------------------

\* C11: when the request of the current activation ends in a failure other
\* than a cancellation (a network error, an answer that is not JSON, a
\* non-2xx answer of the route with its {error} body), the hook goes to
\* Error: error is "Request failed", data is unset and loading is false; the
\* body of the failure answer is never stored as data.
C11_FailedQuerySetsError ==
    [][\A i \in 1..Len(qReqs) :
          (/\ qPhase = "mounted"
           /\ i = Len(qReqs)
           /\ Ends(qReqs, qReqs', i)
           /\ FailedRequest(qReqs'[i])) => qState' = ErrorState]_vars

\* ------------------------------------------------------------------------
\* Further properties of the proxy route and of the dispatcher
\* ------------------------------------------------------------------------

FixedFailure == Http(500, JSONText(ErrorBody(sRequestFailed)))

\* what the route owes for a valid descriptor, from the upstream outcome and
\* from whether the token provider failed, and from nothing else
OwedOnJson(p) == IF p.ok THEN Http(200, JSONText(p.v)) ELSE FixedFailure
OwedAnswer(failed, r) ==
    IF ~failed /\ r.kind = "http" /\ r.status >= 200 /\ r.status <= 299
    THEN OwedOnJson(JSONParse(r.text))
    ELSE FixedFailure

\* C12: the answer of the proxy route to a valid descriptor is a function of
\* the upstream outcome alone, never of the token or of the base URL: the
\* decoded data with status 200 when the dispatcher succeeds, and status 500
\* with the fixed body {error: "Request failed"} on every dispatcher failure,
\* a failing token provider included.
C12_ProxyAnswerFollowsUpstreamOnly ==
    (sEntry = "proxy" /\ sPc = "responded" /\ ValidDescriptor(pxRaw))
        => pxResp = OwedAnswer(sCfg.fails, sResp)

\* C14: a dispatcher call whose token provider does not fail issues exactly
\* one upstream request, from the moment it awaits fetch to after it has
\* settled, whether it resolves or rejects on a non-success status, a
\* network error or an undecodable body.
C14_OneUpstreamRequestPerCall ==
    (sCall # NoCall /\ ~sCfg.fails) => Len(upstream) = 1

C14_Witness ==
    /\ sEntry = "client"
    /\ ~sCfg.fails
    /\ sPc = "settled"
    /\ sResult = Rejected("Error", 500)
    /\ Len(upstream) = 1

\* C16: a payload reaches the upstream only with POST and PUT: the request
\* of a get or delete, called directly or by the proxy route for a GET or
\* DELETE descriptor, has no payload and no Content-Type header, even when
\* the descriptor carries a body.
C16_BodyOnlyWithPostAndPut ==
    (sCall # NoCall /\ upstream # <<>>) =>
        /\ Sent.method = sCall.method
        /\ Sent.method \in {sGET, sDELETE} =>
              Sent.payload = NoPayload /\ Sent.contentType = Undefined
        /\ Sent.payload.sent => Sent.method \in {sPOST, sPUT}

C16_Witness ==
    /\ sEntry = "proxy"
    /\ pxRaw = JSONText(Descriptor(StrV(sDELETE), StrV(pX),
                                   ObjV(<<KV(<<"a">>, NumV(1))>>)))
    /\ upstream # <<>>
    /\ Sent.method = sDELETE
    /\ Sent.payload = NoPayload
    /\ Sent.contentType = Undefined

\* ------------------------------------------------------------------------
\* Further properties of the hooks
\* ------------------------------------------------------------------------

LoadingState == HookState(Undefined, Undefined, TRUE)

\* C13: every activation of useAutoQuery (the mount and each change of path)
\* leaves the hook in the loading state, data and error cleared, whatever
\* the state before it.
C13_ActivationEntersLoading ==
    [][Len(qReqs') > Len(qReqs) => qState' = LoadingState]_vars

\* C15: each activation of useAutoQuery calls setState at most once in
\* total, when its request completes, and not at all when the request was
\* superseded or cancelled before it completed.
C15_OneWritePerActivation ==
    /\ [](\A i \in 1..Len(qReqs) : qReqs[i].writes <= 1)
    /\ [][\A i \in 1..Len(qReqs) :
            (Ends(qReqs, qReqs', i) /\ qReqs[i].aborted) =>
                qReqs'[i].writes = 0]_vars

\* data and error are not both set, and nothing is set while loading
Coherent(st) ==
    /\ ~(st.data # Undefined /\ st.error # Undefined)
    /\ st.loading => (st.data = Undefined /\ st.error = Undefined)

\* C17: in every reachable state of either hook data and error are never
\* both set, and while loading is true both are unset; useAutoQuery starts
\* with loading = true and useAutoMutation with loading = false.
C17_HookStateIsCoherent ==
    /\ Coherent(qState)
    /\ Coherent(mState)
    /\ qReqs = <<>> => qState = HookState(Undefined, Undefined, TRUE)
    /\ mReqs = <<>> => mState = HookState(Undefined, Undefined, FALSE)

C17_Witness ==
    /\ qPhase = "mounted"
    /\ Len(qReqs) = 2
    /\ qReqs[1].outcome = "TypeError" /\ qReqs[1].writes = 1
    /\ qReqs[2].outcome = "success"
    /\ qState.data # Undefined
    /\ qState.error = Undefined
    /\ ~qState.loading

\* C18: in useAutoMutation loading is true whenever the most recently
\* started mutate call is still in flight, and once every request has
\* completed loading is false.
C18_LoadingWhileLatestInFlight ==
    (mPhase = "mounted" /\ mReqs # <<>>) =>
        IF mReqs[Len(mReqs)].pc # "done"
        THEN mState.loading
        ELSE (\A i \in 1..Len(mReqs) : mReqs[i].pc = "done") => ~mState.loading

====
